---- MODULE Spec2Model ----
(***************************************************************************)
(* Conway's Game of Life on a torus: script/main.py.                       *)
(*                                                                         *)
(* Two specifications share the variables below.                           *)
(*   Spec / FairSpec : run_game's generation loop (main.py 204-218) over   *)
(*                     two grid buffers held in a heap of list objects.    *)
(*   EngineSpec      : single calls of get_live_neighbors,                 *)
(*                     create_next_grid and grid_changing on arbitrary     *)
(*                     arguments, aliased buffers and out-of-range         *)
(*                     coordinates included.                               *)
(* A grid is a Python list of lists of 0/1; it is modelled as a function   *)
(* 0..rows-1 -> 0..cols-1 -> {0,1}.  Buffers are referred to by their      *)
(* identity (1 or 2) in `heap`, so that aliasing is expressible.           *)
(***************************************************************************)
EXTENDS Integers, Sequences, FiniteSets, TLC

\* Largest number of cells (rows * cols) of a grid in EngineSpec.
MaxCells == 9
\* Largest number of cells (rows * cols) of the two buffers in Spec.
MaxRunCells == 5
\* Largest generation limit entered in Spec.
MaxGen == 3
\* How far outside [0, rows) / [0, cols) EngineSpec's coordinates go.
MaxOut == 1

VARIABLES
    rows,                \* run_game: rows
    cols,                \* run_game: cols
    generations,         \* run_game: generations
    heap,                \* buffer identity -> grid contents
    current_generation,  \* run_game: reference to the current buffer
    next_generation,     \* run_game: reference to the alternate buffer
    gen,                 \* run_game: loop variable
    range_next,          \* next value range(1, generations + 1) will yield
    pc,                  \* position in run_game, or "engine" in EngineSpec
    exit_reason,         \* "none", "stable" (break) or "limit" (range exhausted)
    steps,               \* number of create_next_grid-and-swap steps completed
    initial,             \* the grid line 204 creates
    log,                 \* the print_grid calls made so far, in order
    call                 \* EngineSpec: the call made and what it produced

vars == <<rows, cols, generations, heap, current_generation, next_generation,
          gen, range_next, pc, exit_reason, steps, initial, log, call>>

Buffers == {1, 2}

\* (rows, cols) pairs with at most n cells.
Dims(n) == {d \in (1..n) \X (1..n) : d[1] * d[2] <= n}

\* Every grid create_initial_grid can return: each cell is 1 or 0 at random.
create_initial_grid(r, c) == [0..(r - 1) -> [0..(c - 1) -> {0, 1}]]

\* Python list indexing: index i of a list of length n is valid for -n <= i < n.
IndexOk(i, n) == -n <= i /\ i < n

\* The % of line 140; Python's result has the sign of the divisor.
wrap_clamped(x, n) == IF x < 0 THEN 0 ELSE IF x >= n THEN n - 1 ELSE x
wrap(x, n) == x % n

\* Line 138: the offsets that are counted.
counted_or(i, j) == ~(i = 0 \/ j = 0)
counted(i, j) == ~(i = 0 /\ j = 0)

\* Lines 138-140 for one (i, j): what is added to life_sum.
neighbor_term(i, j, row, col, r, c, grid) ==
    IF counted(i, j) THEN grid[wrap(row + i, r)][wrap(col + j, c)] ELSE 0

\* Lines 134-141: the two loops over range(-1, 2), unrolled in loop order.
get_live_neighbors(row, col, r, c, grid) ==
    0 + neighbor_term(-1, -1, row, col, r, c, grid)
      + neighbor_term(-1, 0, row, col, r, c, grid)
      + neighbor_term(-1, 1, row, col, r, c, grid)
      + neighbor_term(0, -1, row, col, r, c, grid)
      + neighbor_term(0, 0, row, col, r, c, grid)
      + neighbor_term(0, 1, row, col, r, c, grid)
      + neighbor_term(1, -1, row, col, r, c, grid)
      + neighbor_term(1, 0, row, col, r, c, grid)
      + neighbor_term(1, 1, row, col, r, c, grid)

\* Whether every subscript get_live_neighbors evaluates is a valid list index;
\* if one is not, Python raises IndexError instead of returning.
get_live_neighbors_outcome(row, col, r, c) ==
    IF \A i \in -1..1 : \A j \in -1..1 :
           counted(i, j) => IndexOk(wrap(row + i, r), r) /\ IndexOk(wrap(col + j, c), c)
    THEN "return" ELSE "IndexError"

\* Lines 111-119: the value stored in next_grid[row][col].
cell_rule_off(live_neighbors, cell) ==
    IF live_neighbors < 2 \/ live_neighbors > 2 THEN 0
    ELSE IF live_neighbors = 3 /\ cell = 0 THEN 1
    ELSE cell
cell_rule(live_neighbors, cell) ==
    IF live_neighbors < 2 \/ live_neighbors > 3 THEN 0
    ELSE IF live_neighbors = 3 /\ cell = 0 THEN 1
    ELSE cell

\* Lines 108-119 for one cell: the heap h after the store into next_grid.
\* Every read of grid goes to h[g] as it is at that moment, the write to h[ng].
store_cell(h, row, col, r, c, g, ng) ==
    [h EXCEPT ![ng][row][col] =
        cell_rule(get_live_neighbors(row, col, r, c, h[g]), h[g][row][col])]

\* Lines 105-119 on the heap h: cell k (row-major) onwards.  (hv \in {h}
\* makes the heap of the preceding iteration a value before it is used.)
RECURSIVE create_loop(_, _, _, _, _, _)
create_loop(k, r, c, h, g, ng) ==
    IF k = r * c THEN h
    ELSE create_loop(k + 1, r, c,
             CHOOSE h2 \in {store_cell(hv, k \div c, k % c, r, c, g, ng) : hv \in {h}} : TRUE,
             g, ng)

\* create_next_grid(rows, cols, grid, next_grid), grid and next_grid given as
\* buffer identities g and ng: the heap after the call.
create_next_grid_inplace(r, c, h, g, ng) == create_loop(0, r, c, h, g, g)
create_next_grid(r, c, h, g, ng) == create_loop(0, r, c, h, g, ng)

\* Whether every subscript create_next_grid evaluates is a valid list index.
\* Nothing in lines 93-119 compares grid with next_grid or raises.
create_next_grid_outcome(r, c) ==
    IF \A row \in 0..(r - 1) : \A col \in 0..(c - 1) :
           /\ IndexOk(row, r) /\ IndexOk(col, c)
           /\ get_live_neighbors_outcome(row, col, r, c) = "return"
    THEN "return" ELSE "IndexError"

\* Line 159.
cell_differs_gt(a, b) == a > b
cell_differs(a, b) == ~(a = b)

\* Lines 156-161: the scan from cell k (row-major) on, first difference wins.
RECURSIVE changing_loop(_, _, _, _, _)
changing_loop(k, r, c, grid, next_grid) ==
    IF k = r * c THEN FALSE
    ELSE IF cell_differs(grid[k \div c][k % c], next_grid[k \div c][k % c]) THEN TRUE
    ELSE changing_loop(k + 1, r, c, grid, next_grid)

grid_changing(r, c, grid, next_grid) == changing_loop(0, r, c, grid, next_grid)

\* print_grid(rows, cols, grid, generation): the call is recorded with its
\* arguments, the number of steps completed when it is made and the place
\* ("loop": line 212, "final": line 217) it is made from.
print_grid(l, grid, generation, n, where) ==
    Append(l, [generation |-> generation, grid |-> grid, steps |-> n, at |-> where])

\* Line 209: whether range(1, generations + 1) yields another value.
range_has_next_off(nxt, limit) == nxt <= limit + 1
range_has_next(nxt, limit) == nxt <= limit

\* Line 215: the pair assigned to (current_generation, next_generation).
swap_alias(cur, nxt) == <<nxt, nxt>>
swap(cur, nxt) == <<nxt, cur>>

NoCall == [op |-> "none"]

----------------------------------------------------------------------------
(* run_game, lines 204-218 *)

\* run_game has been entered; nothing is assigned yet (0 and <<>> stand for
\* the names that are still unbound).
Init ==
    /\ rows = 0
    /\ cols = 0
    /\ generations = 0
    /\ heap = [b \in Buffers |-> <<>>]
    /\ current_generation = 1
    /\ next_generation = 2
    /\ gen = 0
    /\ range_next = 1
    /\ pc = "start"
    /\ exit_reason = "none"
    /\ steps = 0
    /\ initial = <<>>
    /\ log = <<>>
    /\ call = NoCall

\* Lines 196-208: the three integers are read, both grids are created, each
\* at random, and gen is set to 1.  The inputs are drawn from Dims(MaxRunCells)
\* and 1..MaxGen in place of the prompts' 10..60, 10..118 and 1..100000.
Setup ==
    /\ pc = "start"
    /\ \E d \in Dims(MaxRunCells) :
          /\ rows' = d[1]
          /\ cols' = d[2]
          /\ heap' \in [Buffers -> create_initial_grid(d[1], d[2])]
    /\ generations' \in 1..MaxGen
    /\ gen' = 1
    /\ pc' = "loop"
    /\ initial' = heap'[current_generation]
    /\ UNCHANGED <<current_generation, next_generation, range_next, exit_reason,
                   steps, log, call>>

\* Lines 209-211: the range yields a value and grid_changing is false: break.
LoopBreak ==
    /\ pc = "loop"
    /\ range_has_next(range_next, generations)
    /\ grid_changing(rows, cols, heap[current_generation], heap[next_generation]) = FALSE
    /\ gen' = range_next
    /\ range_next' = range_next + 1
    /\ pc' = "final"
    /\ exit_reason' = "stable"
    /\ UNCHANGED <<rows, cols, generations, heap, current_generation,
                   next_generation, steps, initial, log, call>>

\* Lines 209-215: one full iteration (sleep changes no state).
LoopBody ==
    /\ pc = "loop"
    /\ range_has_next(range_next, generations)
    /\ grid_changing(rows, cols, heap[current_generation], heap[next_generation]) = TRUE
    /\ gen' = range_next
    /\ range_next' = range_next + 1
    /\ log' = print_grid(log, heap[current_generation], range_next, steps, "loop")
    /\ heap' = create_next_grid(rows, cols, heap, current_generation, next_generation)
    /\ current_generation' = swap(current_generation, next_generation)[1]
    /\ next_generation' = swap(current_generation, next_generation)[2]
    /\ steps' = steps + 1
    /\ UNCHANGED <<rows, cols, generations, pc, exit_reason, initial, call>>

\* Line 209: the range is exhausted; gen keeps its last value.
LoopExhausted ==
    /\ pc = "loop"
    /\ ~range_has_next(range_next, generations)
    /\ pc' = "final"
    /\ exit_reason' = "limit"
    /\ UNCHANGED <<rows, cols, generations, heap, current_generation,
                   next_generation, gen, range_next, steps, initial, log, call>>

\* Line 217.
FinalPrint ==
    /\ pc = "final"
    /\ log' = print_grid(log, heap[current_generation], gen, steps, "final")
    /\ pc' = "done"
    /\ UNCHANGED <<rows, cols, generations, heap, current_generation,
                   next_generation, gen, range_next, exit_reason, steps, initial, call>>

Next == Setup \/ LoopBreak \/ LoopBody \/ LoopExhausted \/ FinalPrint

Spec == Init /\ [][Next]_vars

\* run_game is one sequential thread: once the inputs are in, whatever step
\* is enabled is taken (sleep returns after 200 ms).
FairSpec == Spec /\ WF_vars(LoopBreak \/ LoopBody \/ LoopExhausted \/ FinalPrint)

----------------------------------------------------------------------------
(* single calls of the grid functions *)

EngineInit ==
    /\ \E d \in Dims(MaxCells) :
          /\ rows = d[1]
          /\ cols = d[2]
          /\ \E g \in create_initial_grid(d[1], d[2]) :
                heap \in { [b \in Buffers |-> IF b = 1 THEN g ELSE o] :
                           o \in { g,
                                   [x \in 0..(d[1] - 1) |-> [y \in 0..(d[2] - 1) |-> 0]],
                                   [x \in 0..(d[1] - 1) |-> [y \in 0..(d[2] - 1) |-> 1]] } }
    /\ generations = 1
    /\ current_generation = 1
    /\ next_generation = 2
    /\ gen = 1
    /\ range_next = 1
    /\ pc = "engine"
    /\ exit_reason = "none"
    /\ steps = 0
    /\ initial = heap[1]
    /\ log = <<>>
    /\ call = NoCall

EngineFrame == UNCHANGED <<rows, cols, generations, current_generation, next_generation,
                           gen, range_next, pc, exit_reason, steps, initial, log>>

CallGetLiveNeighbors ==
    /\ pc = "engine" /\ call = NoCall
    /\ \E row \in (0 - MaxOut)..(rows - 1 + MaxOut), col \in (0 - MaxOut)..(cols - 1 + MaxOut) :
          call' = [op |-> "get_live_neighbors", row |-> row, col |-> col,
                   outcome |-> get_live_neighbors_outcome(row, col, rows, cols),
                   ret |-> get_live_neighbors(row, col, rows, cols, heap[1]),
                   pre |-> heap]
    /\ UNCHANGED heap
    /\ EngineFrame

CallCreateNextGrid ==
    /\ pc = "engine" /\ call = NoCall
    /\ \E g \in Buffers, ng \in Buffers :
          /\ heap' = create_next_grid(rows, cols, heap, g, ng)
          /\ call' = [op |-> "create_next_grid", grid |-> g, next_grid |-> ng,
                      outcome |-> create_next_grid_outcome(rows, cols), pre |-> heap]
    /\ EngineFrame

CallGridChanging ==
    /\ pc = "engine" /\ call = NoCall
    /\ \E g \in Buffers, ng \in Buffers :
          call' = [op |-> "grid_changing", grid |-> g, next_grid |-> ng,
                   outcome |-> "return",
                   ret |-> grid_changing(rows, cols, heap[g], heap[ng]),
                   pre |-> heap]
    /\ UNCHANGED heap
    /\ EngineFrame

EngineNext == CallGetLiveNeighbors \/ CallCreateNextGrid \/ CallGridChanging

EngineSpec == EngineInit /\ [][EngineNext]_vars

----------------------------------------------------------------------------
(* Reference definitions used by the properties below *)

Offsets == ((-1..1) \X (-1..1)) \ {<<0, 0>>}

\* The wrapped position of offset o from (row, col), by mathematical modulo.
Pos(row, col, o) == <<(row + o[1]) % rows, (col + o[2]) % cols>>

\* Number of offsets whose wrapped position holds a live cell.
NeighborCount(grid, row, col) ==
    Cardinality({o \in Offsets : grid[Pos(row, col, o)[1]][Pos(row, col, o)[2]] = 1})

\* The same, leaving out every offset that lands on (row, col) itself.
NeighborCountNotCentre(grid, row, col) ==
    Cardinality({o \in Offsets : /\ Pos(row, col, o) # <<row, col>>
                                 /\ grid[Pos(row, col, o)[1]][Pos(row, col, o)[2]] = 1})

\* B3/S23 as a function of the pre-step grid alone.
NextGen(grid) ==
    [row \in 0..(rows - 1) |-> [col \in 0..(cols - 1) |->
        LET n == NeighborCount(grid, row, col)
        IN IF n = 3 THEN 1 ELSE IF n = 2 THEN grid[row][col] ELSE 0]]

\* create_next_grid applied to grid g with a separate output buffer.
Successor(g) == create_next_grid(rows, cols, [b \in Buffers |-> g], 1, 2)[2]

RECURSIVE Advance(_, _)
Advance(g, n) == IF n = 0 THEN g ELSE Advance(Successor(g), n - 1)

InRange(row, col) == row \in 0..(rows - 1) /\ col \in 0..(cols - 1)

\* Whether the loop is about to run the check of line 210.
AtTick == pc = "loop" /\ range_has_next(range_next, generations)

FinalCalls == {k \in 1..Len(log) : log[k].at = "final"}

----------------------------------------------------------------------------
(* Properties *)

\* C1: after create_next_grid(rows, cols, grid, next_grid) with next_grid a
\* distinct buffer, every cell of next_grid follows B3/S23 on
\* n = get_live_neighbors(row, col, ...) of the pre-call grid: n < 2 or n > 3
\* gives 0, n = 3 gives 1 whatever the previous state, n = 2 keeps the state.
C1_RuleB3S23 ==
    (call.op = "create_next_grid" /\ call.grid # call.next_grid) =>
        \A row \in 0..(rows - 1) : \A col \in 0..(cols - 1) :
            LET n == get_live_neighbors(row, col, rows, cols, call.pre[call.grid])
                s == call.pre[call.grid][row][col]
                v == heap[call.next_grid][row][col]
            IN /\ (n < 2 \/ n > 3) => v = 0
               /\ n = 3 => v = 1
               /\ n = 2 => v = s

\* A call on distinct buffers in which a birth, a survival on 2, a survival
\* on 3 and a death by overpopulation all happen.
C1_Witness ==
    /\ call.op = "create_next_grid" /\ call.grid # call.next_grid
    /\ \E row \in 0..(rows - 1), col \in 0..(cols - 1) :
          /\ get_live_neighbors(row, col, rows, cols, call.pre[call.grid]) = 3
          /\ call.pre[call.grid][row][col] = 0
          /\ heap[call.next_grid][row][col] = 1
    /\ \E row \in 0..(rows - 1), col \in 0..(cols - 1) :
          /\ get_live_neighbors(row, col, rows, cols, call.pre[call.grid]) = 2
          /\ call.pre[call.grid][row][col] = 1
          /\ heap[call.next_grid][row][col] = 1
    /\ \E row \in 0..(rows - 1), col \in 0..(cols - 1) :
          /\ get_live_neighbors(row, col, rows, cols, call.pre[call.grid]) > 3
          /\ call.pre[call.grid][row][col] = 1
          /\ heap[call.next_grid][row][col] = 0

C3_StopImpliesSteady ==
    exit_reason = "stable" =>
        Successor(heap[current_generation]) = heap[current_generation]

\* What a step taken after the loop has exited may change: one print_grid
\* call from "final", nothing from "done".
PostLoopStep ==
    pc \in {"final", "done"} =>
        /\ heap' = heap
        /\ current_generation' = current_generation
        /\ next_generation' = next_generation
        /\ steps' = steps
        /\ (pc = "final" => Len(log') = Len(log) + 1)
        /\ (pc = "done" => log' = log)

\* C4: the loop stops after at most `generations` ticks; it does stop; after it
\* has, print_grid is called exactly once more, and nothing is computed,
\* swapped or rendered besides.
C4_StopsAndRendersOnce ==
    /\ [](range_next - 1 <= generations /\ steps <= generations)
    /\ (pc = "loop") ~> (pc = "done")
    /\ [](pc \in {"loop", "final"} => FinalCalls = {})
    /\ [](pc = "done" => FinalCalls = {Len(log)})
    /\ [][PostLoopStep]_vars

\* The run has ended by exhausting a limit of at least 2.
C4_Witness ==
    pc = "done" /\ exit_reason = "limit" /\ generations >= 2 /\ steps = generations

\* C5: if the initial current grid g is a period-2 oscillator and the initial
\* alternate buffer differs from g, grid_changing is true at every tick, the
\* loop never stops for stability and it runs all `generations` ticks.
\* (Until the first step the alternate buffer is as line 205 left it; a first
\* step is taken only if it differed from g.  The formula is stated in
\* contrapositive: a state in which the loop broke, or is about to break, or
\* ended short of `generations` steps, does not come from a period-2
\* oscillator with a differing alternate buffer.)
C5_OscillatorNeverStable ==
    (/\ pc # "start"
     /\ steps = 0 => heap[next_generation] # initial
     /\ \/ exit_reason = "stable"
        \/ AtTick /\ ~grid_changing(rows, cols, heap[current_generation],
                                     heap[next_generation])
        \/ pc \in {"final", "done"} /\ steps # generations) =>
        ~(/\ Successor(initial) # initial
          /\ Successor(Successor(initial)) = initial)

\* A run from a period-2 oscillator that has ended after 3 or more steps.
C5_Witness ==
    /\ pc = "done" /\ generations >= 3 /\ steps = generations
    /\ Successor(initial) # initial
    /\ Successor(Successor(initial)) = initial

\* C6 as stated: in every print_grid call, the final one included, generation
\* is 1 plus the number of compute-and-swap steps completed, and the grid is
\* the initial current grid advanced generation - 1 times.
C6_GenerationCountsSteps ==
    \A k \in 1..Len(log) :
        /\ log[k].generation = 1 + log[k].steps
        /\ log[k].grid = Advance(initial, log[k].generation - 1)

\* C7 as stated: the generation numbers passed to print_grid, in call order and
\* including the final call, are 1, 2, ..., k, none passed twice.
C7_GenerationsInOrder ==
    \A k \in 1..Len(log) : log[k].generation = k

\* What a compute-and-swap step does to the two buffers.
StepEffect ==
    steps' # steps =>
        /\ heap'[current_generation] = heap[current_generation]
        /\ heap'[next_generation] = NextGen(heap[current_generation])
        /\ DOMAIN heap' = DOMAIN heap

\* C8: in every step the buffer passed as next_grid is not the buffer passed as
\* grid; the step leaves every cell of grid unchanged and sets every cell of
\* next_grid to a value that depends on the pre-step grid only.
C8_DoubleBuffer ==
    /\ [](current_generation # next_generation)
    /\ [][StepEffect]_vars

\* Two steps, hence two swaps, have been made and the buffers hold different
\* grids.
C8_Witness ==
    /\ steps >= 2
    /\ current_generation = 1
    /\ heap[current_generation] # heap[next_generation]

\* C9 as stated: create_next_grid with next_grid the same buffer as grid, and
\* get_live_neighbors with row or col out of range, end in an error and never
\* return normally or leave a silently modified grid.
C9_FailsLoudly ==
    /\ (call.op = "create_next_grid" /\ call.grid = call.next_grid) =>
           (call.outcome # "return" /\ heap = call.pre)
    /\ (call.op = "get_live_neighbors" /\ ~InRange(call.row, call.col)) =>
           call.outcome # "return"

\* C10: both buffers stay rows x cols grids of 0/1; at the start of every tick
\* after the first the alternate buffer holds the preceding generation (the
\* grid displayed at the preceding tick) and the current buffer is the rule
\* applied to it; the loop breaks at that tick if and only if the two
\* generations are identical, so it has gone past a tick k >= 2 only if
\* generation k differed from generation k - 1.
C10_LoopInvariant ==
    pc # "start" =>
        /\ heap \in [Buffers -> create_initial_grid(rows, cols)]
        /\ (pc = "loop" /\ steps >= 1) =>
               /\ heap[next_generation] = log[Len(log)].grid
               /\ log[Len(log)].generation = steps
               /\ heap[current_generation] = Successor(heap[next_generation])
        /\ (AtTick /\ steps >= 1) =>
               (~grid_changing(rows, cols, heap[current_generation],
                               heap[next_generation])
                   <=> heap[current_generation] = log[Len(log)].grid)
        /\ (exit_reason = "stable" /\ steps >= 1) =>
               /\ heap[current_generation] = log[steps].grid
               /\ gen = steps + 1
        /\ \A k \in 2..steps : log[k].grid # log[k - 1].grid

\* The loop has broken at tick 3: generation 3 equals generation 2, which
\* differs from generation 1.
C10_Witness ==
    /\ exit_reason = "stable" /\ steps = 2
    /\ heap[current_generation] = heap[next_generation]
    /\ log[2].grid # log[1].grid

====
